---------------------------- MODULE Spec2Model ----------------------------
(***************************************************************************)
(* CopyDoc (src/copydoc.py): clean-up of Google-Doc HTML.                  *)
(*                                                                         *)
(* The document tree is an arena of nodes (a sequence indexed by node id). *)
(* Strings (text, attribute values, URLs, selectors) are sequences of      *)
(* one-token strings, so that startswith / split / strip / parse_qs are    *)
(* computed and not assumed.                                               *)
(***************************************************************************)
EXTENDS Integers, Sequences, FiniteSets, TLC

(***************************************************************************)
(* Bounds of the checked inputs.                                           *)
(***************************************************************************)
MaxRun == 3
MaxBlocks == 2

(***************************************************************************)
(* Python values stored in attribute dictionaries: a str, a list of str,   *)
(* or None.                                                                *)
(***************************************************************************)
Str(s) == [t |-> "str", v |-> s]
List(l) == [t |-> "list", v |-> l]
None == [t |-> "none", v |-> <<>>]

ValEq(a, b) == a.t = b.t /\ a.v = b.v

Truthy(a) == a.t # "none" /\ Len(a.v) > 0

NoAttrs == <<>>

AttrsEq(a, b) ==
    /\ DOMAIN a = DOMAIN b
    /\ \A k \in DOMAIN a : ValEq(a[k], b[k])

(***************************************************************************)
(* str helpers.                                                            *)
(***************************************************************************)
StartsWith(s, p) == Len(s) >= Len(p) /\ SubSeq(s, 1, Len(p)) = p

Tail2(s, i) == SubSeq(s, i, Len(s))

IndexOf(s, c) ==
    IF \E i \in 1..Len(s) : s[i] = c
    THEN CHOOSE i \in 1..Len(s) : s[i] = c /\ \A j \in 1..(i - 1) : s[j] # c
    ELSE 0

\* s.split(c, 1)[-1]
AfterFirst(s, c) == IF IndexOf(s, c) = 0 THEN s ELSE Tail2(s, IndexOf(s, c) + 1)

\* s.split(c, 1)[0]
BeforeFirst(s, c) == IF IndexOf(s, c) = 0 THEN s ELSE SubSeq(s, 1, IndexOf(s, c) - 1)

Whitespace == {" ", "\n"}

IsBlank(s) == \A i \in 1..Len(s) : s[i] \in Whitespace

\* s.strip()
Strip(s) ==
    IF IsBlank(s) THEN <<>>
    ELSE LET lo == CHOOSE i \in 1..Len(s) :
                     s[i] \notin Whitespace /\ \A j \in 1..(i - 1) : s[j] \in Whitespace
             hi == CHOOSE i \in 1..Len(s) :
                     s[i] \notin Whitespace /\ \A j \in (i + 1)..Len(s) : s[j] \in Whitespace
         IN SubSeq(s, lo, hi)

RECURSIVE SplitOn(_, _)
\* s.split(c)
SplitOn(s, c) ==
    IF IndexOf(s, c) = 0 THEN <<s>>
    ELSE <<BeforeFirst(s, c)>> \o SplitOn(AfterFirst(s, c), c)

RECURSIVE Concat(_)
Concat(ss) == IF Len(ss) = 0 THEN <<>> ELSE Head(ss) \o Concat(Tail(ss))

(***************************************************************************)
(* urlsplit(href).query, parse_qs and CopyDoc._parse_href.                 *)
(***************************************************************************)
\* urlsplit: the fragment is cut at the first "#", the query starts after the first "?"
UrlQuery(u) ==
    LET nofrag == BeforeFirst(u, "#")
    IN IF IndexOf(nofrag, "?") = 0 THEN <<>> ELSE AfterFirst(nofrag, "?")

\* parse_qs(query): name=value pairs split on "&"; pairs with no "=" or a blank
\* value are dropped (keep_blank_values is False); the values of one name in order
QsValues(query, name) ==
    LET pairs == SplitOn(query, "&")
        Keep(p) == IndexOf(p, "=") # 0 /\ Len(AfterFirst(p, "=")) > 0
                   /\ BeforeFirst(p, "=") = name
        kept == SelectSeq(pairs, Keep)
    IN [i \in 1..Len(kept) |-> AfterFirst(kept[i], "=")]

\* params.get('q'): the list of q values, or None when there is none
ParseHref(href) ==
    LET q == QsValues(UrlQuery(href), <<"q">>)
    IN IF Len(q) = 0 THEN None ELSE List(q)

\* _parse_attr(tagname, attr, value)
ParseAttr(tagname, attr, value) ==
    IF tagname = "a" /\ attr = "href" THEN ParseHref(value.v) ELSE value

(***************************************************************************)
(* Input documents: a nested tree of elements and strings, flattened by    *)
(* the parser into the arena in document order (node 1 is the              *)
(* BeautifulSoup object itself).                                           *)
(***************************************************************************)
T(text) == [name |-> "#text", attrs |-> NoAttrs, text |-> text, kids |-> <<>>]

E(name, attrs, kids) == [name |-> name, attrs |-> attrs, text |-> <<>>, kids |-> kids]

RECURSIVE Size(_)
RECURSIVE SizeAll(_)
Size(t) == 1 + SizeAll(t.kids)

SizeAll(ts) == IF Len(ts) = 0 THEN 0 ELSE Size(Head(ts)) + SizeAll(Tail(ts))

RECURSIVE Flat(_, _, _)
RECURSIVE FlatAll(_, _, _)
\* the nodes of tree t, in document order, t getting id `base`
Flat(t, base, par) ==
    LET kidBase(k) == base + 1 + SizeAll(SubSeq(t.kids, 1, k - 1))
    IN <<[name |-> t.name, attrs |-> t.attrs, attrsSet |-> TRUE, text |-> t.text,
          contents |-> [k \in 1..Len(t.kids) |-> kidBase(k)],
          parent |-> par, gone |-> 0]>>
       \o FlatAll(t.kids, base + 1, base)

FlatAll(ts, base, par) ==
    IF Len(ts) = 0 THEN <<>>
    ELSE Flat(Head(ts), base, par) \o FlatAll(Tail(ts), base + Size(Head(ts)), par)

Root == 1

\* BeautifulSoup(html_string, 'html.parser')
Parse(doc) == Flat(E("[document]", NoAttrs, doc), Root, 0)

(***************************************************************************)
(* Tree navigation (bs4.element.Tag).                                      *)
(***************************************************************************)
IsTag(s, n) == s[n].name # "#text"

RECURSIVE DescSeq(_, _)
DescSeq(s, kids) ==
    IF Len(kids) = 0 THEN <<>>
    ELSE <<Head(kids)>> \o DescSeq(s, s[Head(kids)].contents) \o DescSeq(s, Tail(kids))

\* tag.descendants, in document order
Descendants(s, n) == DescSeq(s, s[n].contents)

\* tag.findAll(name)
FindAll(s, n, name) ==
    LET Is(d) == s[d].name = name IN SelectSeq(Descendants(s, n), Is)

\* tag.findAll(): every descendant Tag
FindAllTags(s, n) ==
    LET Is(d) == IsTag(s, d) IN SelectSeq(Descendants(s, n), Is)

\* soup.body: the first Tag named body, 0 for None
SoupBody(s) ==
    IF Len(FindAll(s, Root, "body")) = 0 THEN 0 ELSE Head(FindAll(s, Root, "body"))

RECURSIVE TextOfAll(_, _)
\* tag.get_text() / tag.text: the strings below the node, concatenated
TextOf(s, n) == IF IsTag(s, n) THEN TextOfAll(s, s[n].contents) ELSE s[n].text

TextOfAll(s, kids) ==
    IF Len(kids) = 0 THEN <<>>
    ELSE (IF IsTag(s, Head(kids)) THEN TextOfAll(s, s[Head(kids)].contents)
          ELSE s[Head(kids)].text) \o TextOfAll(s, Tail(kids))

IndexIn(seq, x) == CHOOSE i \in 1..Len(seq) : seq[i] = x

\* tag.next_sibling, 0 for None
NextSibling(s, n) ==
    IF s[n].parent = 0 THEN 0
    ELSE LET c == s[s[n].parent].contents
             i == IndexIn(c, n)
         IN IF i < Len(c) THEN c[i + 1] ELSE 0

RECURSIVE InSubtree(_, _, _)
\* n is top or a descendant of top
InSubtree(s, n, top) ==
    IF n = top THEN TRUE
    ELSE IF s[n].parent = 0 THEN FALSE
    ELSE InSubtree(s, s[n].parent, top)

\* tag.get(attr): the value, or None
Get(s, n, attr) == IF attr \in DOMAIN s[n].attrs THEN s[n].attrs[attr] ELSE None

(***************************************************************************)
(* Tree mutation (bs4.element.Tag).                                        *)
(***************************************************************************)
Without(seq, x) == LET Keep(y) == y # x IN SelectSeq(seq, Keep)

\* tag.extract(): detach the node, its subtree stays below it
Extract(s, n) ==
    IF s[n].parent = 0 THEN s
    ELSE [s EXCEPT ![s[n].parent].contents = Without(@, n), ![n].parent = 0]

\* tag.append(str): a new NavigableString at the end of the contents
AppendText(s, n, text) ==
    LET new == Len(s) + 1
    IN Append([s EXCEPT ![n].contents = Append(@, new)],
              [name |-> "#text", attrs |-> NoAttrs, attrsSet |-> TRUE, text |-> text,
               contents |-> <<>>, parent |-> n, gone |-> 0])

\* tag.wrap(soup.new_tag(name)): the new tag takes the node's place and holds it
Wrap(s, n, name) ==
    LET new == Len(s) + 1
        p == s[n].parent
    IN Append([s EXCEPT ![p].contents = [i \in DOMAIN @ |-> IF @[i] = n THEN new ELSE @[i]],
                        ![n].parent = new],
              [name |-> name, attrs |-> NoAttrs, attrsSet |-> TRUE, text |-> <<>>,
               contents |-> <<n>>, parent |-> p, gone |-> 0])

\* tag.unwrap(): the node's children take its place
Unwrap(s, n) ==
    LET p == s[n].parent
        c == s[p].contents
        i == IndexIn(c, n)
        kids == s[n].contents
    IN [m \in DOMAIN s |->
          IF m = p THEN [s[m] EXCEPT !.contents =
                            SubSeq(c, 1, i - 1) \o kids \o SubSeq(c, i + 1, Len(c))]
          ELSE IF m = n THEN [s[m] EXCEPT !.contents = <<>>, !.parent = 0]
          ELSE IF \E k \in 1..Len(kids) : kids[k] = m THEN [s[m] EXCEPT !.parent = p]
          ELSE s[m]]

\* tag.decompose(): extract, then clear the __dict__ of the node and of everything
\* below it (name, attrs, parent read as None afterwards; contents is [])
Decompose(s, n) ==
    LET e == Extract(s, n)
        sub == {d \in DOMAIN e : InSubtree(e, d, n)}
    IN [m \in DOMAIN e |->
          IF m \in sub
          THEN [name |-> IF IsTag(e, m) THEN "None" ELSE "#text",
                attrs |-> NoAttrs, attrsSet |-> FALSE, text |-> e[m].text,
                contents |-> <<>>, parent |-> 0,
                gone |-> IF m = n THEN e[m].gone + 1 ELSE e[m].gone]
          ELSE e[m]]

RECURSIVE TagEq(_, _, _)
\* Tag.__eq__: the same object, or the same name, attributes and (recursively)
\* contents; strings compare by value
TagEq(s, a, b) ==
    IF a = b THEN TRUE
    ELSE IF ~IsTag(s, a) \/ ~IsTag(s, b)
    THEN ~IsTag(s, a) /\ ~IsTag(s, b) /\ s[a].text = s[b].text
    ELSE /\ s[a].name = s[b].name
         /\ s[a].attrsSet = s[b].attrsSet
         /\ AttrsEq(s[a].attrs, s[b].attrs)
         /\ Len(s[a].contents) = Len(s[b].contents)
         /\ \A i \in 1..Len(s[a].contents) :
               TagEq(s, s[a].contents[i], s[b].contents[i])

(***************************************************************************)
(* Module constants of copydoc.py.                                         *)
(***************************************************************************)
ATTR_WHITELIST == [a |-> {"href"}, img |-> {"src", "alt"}]

\* the tags the html.parser builder treats as void (can_be_empty_element)
VoidTags == {"br", "hr", "img", "input", "meta", "link"}

(***************************************************************************)
(* CopyDoc.build_stylesheet.  A style block is the sequence of rules       *)
(* cssutils yields for it; a rule has a type, a selectorText and a         *)
(* sequence of (name, value) declarations.                                 *)
(***************************************************************************)
Rule(sel, decls) == [type |-> "style", sel |-> sel, decls |-> decls]

\* selectors[style] = {} followed by one assignment per declaration
RuleStyles(decls) ==
    [p \in {decls[i][1] : i \in 1..Len(decls)} |->
        LET last == CHOOSE i \in 1..Len(decls) :
                       decls[i][1] = p /\ \A j \in (i + 1)..Len(decls) : decls[j][1] # p
        IN decls[last][2]]

RECURSIVE AddRules(_, _)
AddRules(selectors, rules) ==
    IF Len(rules) = 0 THEN selectors
    ELSE LET r == Head(rules)
             next == IF r.type = "style"
                     THEN [k \in DOMAIN selectors \cup {r.sel} |->
                             IF k = r.sel THEN RuleStyles(r.decls) ELSE selectors[k]]
                     ELSE selectors
         IN AddRules(next, Tail(rules))

BuildStylesheet(blocks) == AddRules(<<>>, Concat(blocks))

\* '.{0}'.format(class_name)
Selector(class_name) == <<".">> \o class_name

(***************************************************************************)
(* The span pass: create_italic, create_strong, create_underline,          *)
(* unwrap_span.                                                            *)
(***************************************************************************)
Classes(s, tag) == Get(s, tag, "class").v

RECURSIVE WrapFor(_, _, _, _, _, _, _)
\* for class_name in classes: for key, value in styles.items():
\*     if key == K and value in V: tag.wrap(new_tag(name))
WrapFor(s, sheet, tag, classes, key, values, name) ==
    IF Len(classes) = 0 THEN s
    ELSE LET styles == sheet[Selector(Head(classes))]
             hit == key \in DOMAIN styles /\ styles[key] \in values
         IN WrapFor(IF hit THEN Wrap(s, tag, name) ELSE s,
                    sheet, tag, Tail(classes), key, values, name)

CreateItalic(s, sheet, tag, classes) ==
    WrapFor(s, sheet, tag, classes, "font-style", {"italic"}, "em")

\* A mutant of create_strong: only the keyword bold is recognised, not 700.
CreateStrongBoldOnly(s, sheet, tag, classes) ==
    WrapFor(s, sheet, tag, classes, "font-weight", {"bold"}, "strong")

CreateStrong(s, sheet, tag, classes) ==
    WrapFor(s, sheet, tag, classes, "font-weight", {"bold", "700"}, "strong")

CreateUnderline(s, sheet, tag, classes) ==
    WrapFor(s, sheet, tag, classes, "text-decoration", {"underline"}, "u")

UnwrapSpan(s, tag) == Unwrap(s, tag)

\* the index of the first class with no stylesheet entry (the KeyError), 0 if none
FirstMissing(sheet, classes) ==
    IF \E i \in 1..Len(classes) : Selector(classes[i]) \notin DOMAIN sheet
    THEN CHOOSE i \in 1..Len(classes) :
            /\ Selector(classes[i]) \notin DOMAIN sheet
            /\ \A j \in 1..(i - 1) : Selector(classes[j]) \in DOMAIN sheet
    ELSE 0

(***************************************************************************)
(* The anchor pass: remove_comments, check_next.                           *)
(***************************************************************************)
IsCommentAnchor(s, tag) ==
    "id" \in DOMAIN s[tag].attrs /\ StartsWith(s[tag].attrs["id"].v, <<"cmnt">>)

RemoveComments(s, tag) ==
    IF IsCommentAnchor(s, tag) THEN Extract(s, s[tag].parent) ELSE s

\* the two guards of check_next, and the comparison of the resolved hrefs
NextIsAnchor(s, tag) ==
    NextSibling(s, tag) # 0 /\ s[NextSibling(s, tag)].name = "a"

\* A mutant of check_next: links are compared by their raw href.
SameHrefRaw(s, tag, next) ==
    /\ Truthy(Get(s, tag, "href")) /\ Truthy(Get(s, next, "href"))
    /\ ValEq(Get(s, tag, "href"), Get(s, next, "href"))

SameHref(s, tag, next) ==
    /\ Truthy(Get(s, tag, "href")) /\ Truthy(Get(s, next, "href"))
    /\ ValEq(ParseHref(Get(s, tag, "href").v), ParseHref(Get(s, next, "href").v))

Merges(s, tag) == NextIsAnchor(s, tag) /\ SameHref(s, tag, NextSibling(s, tag))

\* check_next: the tree and the blacklist afterwards
CheckNextSoup(s, tag) ==
    IF Merges(s, tag) THEN AppendText(s, tag, TextOf(s, NextSibling(s, tag))) ELSE s

CheckNextBlacklist(s, bl, tag) ==
    IF Merges(s, tag) THEN Append(bl, NextSibling(s, tag)) ELSE bl

(***************************************************************************)
(* The body pass: remove_empty, remove_inline_comment, parse_attrs,        *)
(* find_token, remove_blacklisted_tags.                                    *)
(***************************************************************************)
\* len(list(tag.stripped_strings))
StrippedStrings(s, tag) ==
    LET Is(d) == ~IsTag(s, d) /\ ~IsBlank(s[d].text)
    IN SelectSeq(Descendants(s, tag), Is)

IsEmptyElement(s, tag) == Len(s[tag].contents) = 0 /\ s[tag].name \in VoidTags

RemoveEmpty(s, tag) ==
    IF /\ Len(s[tag].contents) = 0
       /\ Len(StrippedStrings(s, tag)) = 0
       /\ ~IsEmptyElement(s, tag)
    THEN Extract(s, tag) ELSE s

RemoveInlineComment(s, tag) ==
    IF StartsWith(TextOf(s, tag), <<"#", "#">>) THEN Extract(s, tag) ELSE s

\* A mutant of parse_attrs: a tag with no whitelist entry keeps its attributes.
ParseAttrsKeepOthers(s, tag) ==
    IF s[tag].name \in DOMAIN ATTR_WHITELIST
    THEN LET keep == DOMAIN s[tag].attrs \cap ATTR_WHITELIST[s[tag].name]
         IN [s EXCEPT ![tag].attrs =
                [k \in keep |-> ParseAttr(s[tag].name, k, s[tag].attrs[k])]]
    ELSE s

ParseAttrs(s, tag) ==
    IF s[tag].name \in DOMAIN ATTR_WHITELIST
    THEN LET keep == DOMAIN s[tag].attrs \cap ATTR_WHITELIST[s[tag].name]
         IN [s EXCEPT ![tag].attrs =
                [k \in keep |-> ParseAttr(s[tag].name, k, s[tag].attrs[k])]]
    ELSE [s EXCEPT ![tag].attrs = NoAttrs, ![tag].attrsSet = TRUE]

\* not hasattr(self, attr) or not getattr(self, attr)
FieldUnset(f, attr) == attr \notin DOMAIN f \/ Len(f[attr]) = 0

TokenHit(s, f, tag, token, attr) ==
    FieldUnset(f, attr) /\ StartsWith(TextOf(s, tag), token)

FindTokenSoup(s, f, tag, token, attr) ==
    IF TokenHit(s, f, tag, token, attr) THEN Extract(s, tag) ELSE s

FindTokenFields(s, f, tag, token, attr) ==
    IF TokenHit(s, f, tag, token, attr)
    THEN [k \in DOMAIN f \cup {attr} |->
            IF k = attr THEN Strip(AfterFirst(TextOf(s, tag), ":")) ELSE f[k]]
    ELSE f

RECURSIVE FindTokens(_, _, _, _)
\* for token, target in self.tokens: self.find_token(tag, token, target)
FindTokens(s, f, tag, toks) ==
    IF Len(toks) = 0 THEN [soup |-> s, fields |-> f]
    ELSE FindTokens(FindTokenSoup(s, f, tag, Head(toks)[1], Head(toks)[2]),
                    FindTokenFields(s, f, tag, Head(toks)[1], Head(toks)[2]),
                    tag, Tail(toks))

\* tag in self.tags_blacklist (list membership: identity or Tag.__eq__)
InBlacklist(s, bl, tag) == \E i \in 1..Len(bl) : TagEq(s, tag, bl[i])

RemoveBlacklistedTags(s, bl, tag) ==
    IF InBlacklist(s, bl, tag) THEN Decompose(s, tag) ELSE s

(***************************************************************************)
(* The checked inputs: html documents (as parsed trees), the style blocks  *)
(* of their head, and the token rules handed to the constructor.           *)
(***************************************************************************)
X == <<"x">>
Y == <<"y">>

\* redirect hrefs to e1 (two spellings) and to e2, plain hrefs with no q parameter
H1 == <<"g", "?", "q", "=", "e1">>
H1b == <<"g", "?", "sa", "=", "D", "&", "q", "=", "e1">>
H2 == <<"g", "?", "q", "=", "e2">>
N1 == <<"e1">>
N2 == <<"e2">>

Cls(names) == List([i \in 1..Len(names) |-> <<names[i]>>])

Anchor(href, text) == E("a", [href |-> Str(href), class |-> Cls(<<"c5">>)], <<T(text)>>)

Span(names, kids) == E("span", [class |-> Cls(names)], kids)

P(kids) == E("p", NoAttrs, kids)

\* what a paragraph of links is made of
LinkItems ==
    {Anchor(H1, X), Anchor(H1b, Y), Anchor(H2, X), Anchor(N1, X), Anchor(N2, Y),
     Anchor(H1, <<"#">>), Anchor(H1, <<"T", ":">>),
     E("a", [href |-> Str(<<>>), name |-> Str(<<"top">>)], <<T(X)>>),
     E("a", [href |-> Str(H1), id |-> Str(<<"cmnt", "1">>)], <<T(X)>>),
     T(<<" ">>),
     Span(<<"c1">>, <<Anchor(H1, X)>>),
     E("a", [href |-> Str(H1)], <<Span(<<"c1">>, <<T(Y)>>)>>)}

\* what a body is made of
Blocks ==
    {P(<<T(X)>>), P(<<>>), E("div", NoAttrs, <<P(<<>>)>>), P(<<T(<<" ">>)>>),
     E("br", NoAttrs, <<>>),
     E("img", [src |-> Str(<<"i.png">>), alt |-> Str(X), onclick |-> Str(<<"js">>)], <<>>),
     E("div", [style |-> Str(<<"color">>), id |-> Str(<<"d1">>)], <<T(Y)>>),
     P(<<T(<<"#", "#", "x">>)>>),
     P(<<T(<<"T", ":", " ", "x", " ">>)>>), P(<<T(<<"T", ":">>)>>),
     E("div", NoAttrs, <<P(<<T(<<"T", ":", " ">>)>>)>>),
     P(<<T(<<"S", ":", "y">>)>>),
     P(<<Span(<<"c1">>, <<T(X)>>)>>), P(<<Span(<<"c9">>, <<T(X)>>)>>),
     P(<<E("span", NoAttrs, <<>>)>>),
     P(<<Span(<<"c1">>, <<T(X), Span(<<"c2", "c3">>, <<T(Y)>>)>>)>>),
     P(<<Span(<<"c2", "c4">>, <<>>)>>),
     P(<<Anchor(H1, X), Anchor(H1b, Y)>>)}

StdCss ==
    <<<<Rule(<<".", "c1">>, <<<<"font-weight", "700">>>>),
        Rule(<<".", "c2">>, <<<<"font-style", "italic">>, <<"color", "red">>>>),
        [type |-> "media", sel |-> <<".", "c9">>, decls |-> <<>>]>>,
      <<Rule(<<".", "c3">>, <<<<"text-decoration", "underline">>, <<"font-weight", "bold">>>>),
        Rule(<<".", "c4">>, <<<<"font-weight", "400">>, <<"font-style", "normal">>>>),
        Rule(<<".", "c5">>, <<<<"color", "blue">>>>)>>>>

\* a later rule for .c1 replaces the earlier one
AltCss == StdCss \o <<<<Rule(<<".", "c1">>, <<<<"color", "black">>>>)>>>>

TitleRule == <<<<"T", ":">>, "title">>
SlugRule == <<<<"S", ":">>, "slug">>

InBody(kids) == <<E("body", NoAttrs, kids)>>

\* how a body of blocks is handed over: inside <body> or bare, the style blocks of
\* the head, the token rules
Configs ==
    {<<TRUE, StdCss, <<TitleRule, SlugRule>>>>, <<FALSE, StdCss, <<TitleRule>>>>,
     <<TRUE, <<>>, <<>>>>, <<TRUE, AltCss, <<TitleRule>>>>}

(***************************************************************************)
(* State of one CopyDoc(html_string, tokens) call.                         *)
(***************************************************************************)
VARIABLES
    html,            \* the constructor's html_string, as BeautifulSoup reads it
    tokens,          \* self.tokens
    soup,            \* self.soup: the arena of nodes
    stylesheet,      \* self.stylesheet
    tags_blacklist,  \* self.tags_blacklist
    fields,          \* the attributes find_token sets on self
    pc,              \* where parse() stands
    todo,            \* what is left of the list the running loop iterates
    raised,          \* the exception that left the constructor, "" if none
    extracted_by     \* history: node -> the rule whose extract() detached it

vars == <<html, tokens, soup, stylesheet, tags_blacklist, fields, pc, todo, raised,
          extracted_by>>

\* __init__ up to the call of self.parse()
Construct(doc, css, toks) ==
    /\ html = Parse(doc)
    /\ tokens = toks
    /\ soup = html
    /\ stylesheet = BuildStylesheet(css)
    /\ tags_blacklist = <<>>
    /\ fields = <<>>
    /\ pc = "parse"
    /\ todo = <<>>
    /\ raised = ""
    /\ extracted_by = <<>>

\* a paragraph of up to MaxRun links, or up to MaxBlocks blocks under each of Configs
Init ==
    \/ \E k \in 1..MaxRun : \E kids \in [1..k -> LinkItems] :
          Construct(InBody(<<P(kids)>>), StdCss, <<TitleRule>>)
    \/ \E k \in 0..MaxBlocks : \E blocks \in [1..k -> Blocks] : \E c \in Configs :
          Construct(IF c[1] THEN InBody(blocks) ELSE blocks, c[2], c[3])

\* the history after a step from tree s to tree t in which `rule` ran on node n
Record(h, s, t, n, rule) ==
    IF s[n].parent # 0 /\ t[n].parent = 0 /\ n \notin DOMAIN h
    THEN [k \in DOMAIN h \cup {n} |-> IF k = n THEN rule ELSE h[k]]
    ELSE h

\* for tag in self.soup.findAll('span')
FindSpans ==
    /\ pc = "parse"
    /\ pc' = "spans"
    /\ todo' = FindAll(soup, Root, "span")
    /\ UNCHANGED <<html, tokens, soup, stylesheet, tags_blacklist, fields, raised,
                   extracted_by>>

\* one iteration of the span loop; create_italic raises KeyError at the first
\* class that has no stylesheet entry, after wrapping for the classes before it
SpanStep ==
    /\ pc = "spans" /\ Len(todo) > 0
    /\ LET tag == Head(todo)
           classes == Classes(soup, tag)
           miss == FirstMissing(stylesheet, classes)
       IN IF miss # 0
          THEN /\ soup' = CreateItalic(soup, stylesheet, tag, SubSeq(classes, 1, miss - 1))
               /\ raised' = "KeyError"
               /\ pc' = "raised"
               /\ todo' = todo
          ELSE /\ soup' = UnwrapSpan(
                            CreateUnderline(
                              CreateStrong(
                                CreateItalic(soup, stylesheet, tag, classes),
                                stylesheet, tag, classes),
                              stylesheet, tag, classes),
                            tag)
               /\ todo' = Tail(todo)
               /\ UNCHANGED <<pc, raised>>
    /\ UNCHANGED <<html, tokens, stylesheet, tags_blacklist, fields, extracted_by>>

\* for tag in self.soup.findAll('a')
FindAnchors ==
    /\ pc = "spans" /\ Len(todo) = 0
    /\ pc' = "links"
    /\ todo' = FindAll(soup, Root, "a")
    /\ UNCHANGED <<html, tokens, soup, stylesheet, tags_blacklist, fields, raised,
                   extracted_by>>

\* one iteration of the anchor loop: remove_comments, check_next
\* (None.extract() raises AttributeError when a comment anchor has no parent)
AnchorStep ==
    /\ pc = "links" /\ Len(todo) > 0
    /\ LET tag == Head(todo)
       IN IF IsCommentAnchor(soup, tag) /\ soup[tag].parent = 0
          THEN /\ raised' = "AttributeError"
               /\ pc' = "raised"
               /\ UNCHANGED <<soup, tags_blacklist, todo, extracted_by>>
          ELSE LET s1 == RemoveComments(soup, tag)
               IN /\ soup' = CheckNextSoup(s1, tag)
                  /\ tags_blacklist' = CheckNextBlacklist(s1, tags_blacklist, tag)
                  /\ extracted_by' =
                        Record(extracted_by, soup, s1, soup[tag].parent, "remove_comments")
                  /\ todo' = Tail(todo)
                  /\ UNCHANGED <<pc, raised>>
    /\ UNCHANGED <<html, tokens, stylesheet, fields>>

\* if self.soup.body: for tag in self.soup.body.findAll()
FindBody ==
    /\ pc = "links" /\ Len(todo) = 0
    /\ IF SoupBody(soup) # 0
       THEN pc' = "body" /\ todo' = FindAllTags(soup, SoupBody(soup))
       ELSE pc' = "done" /\ todo' = <<>>
    /\ UNCHANGED <<html, tokens, soup, stylesheet, tags_blacklist, fields, raised,
                   extracted_by>>

\* the target of the first token rule that consumes the tag, "" if none does
FirstHit(s, f, tag, toks) ==
    IF \E i \in 1..Len(toks) : TokenHit(s, f, tag, toks[i][1], toks[i][2])
    THEN toks[CHOOSE i \in 1..Len(toks) :
                 /\ TokenHit(s, f, tag, toks[i][1], toks[i][2])
                 /\ \A j \in 1..(i - 1) : ~TokenHit(s, f, tag, toks[j][1], toks[j][2])][2]
    ELSE ""

\* one iteration of the body loop
BodyStep ==
    /\ pc = "body" /\ Len(todo) > 0
    /\ LET tag == Head(todo)
           s1 == RemoveEmpty(soup, tag)
           s2 == RemoveInlineComment(s1, tag)
           s3 == ParseAttrs(s2, tag)
           ft == FindTokens(s3, fields, tag, tokens)
           s4 == RemoveBlacklistedTags(ft.soup, tags_blacklist, tag)
       IN /\ soup' = s4
          /\ fields' = ft.fields
          /\ extracted_by' =
                Record(Record(Record(Record(extracted_by,
                    soup, s1, tag, "remove_empty"),
                    s1, s2, tag, "remove_inline_comment"),
                    s3, ft.soup, tag, FirstHit(s3, fields, tag, tokens)),
                    ft.soup, s4, tag, "remove_blacklisted_tags")
    /\ todo' = Tail(todo)
    /\ UNCHANGED <<html, tokens, stylesheet, tags_blacklist, pc, raised>>

\* parse() and with it __init__ return
Finish ==
    /\ pc = "body" /\ Len(todo) = 0
    /\ pc' = "done"
    /\ UNCHANGED <<html, tokens, soup, stylesheet, tags_blacklist, fields, todo, raised,
                   extracted_by>>

Next == FindSpans \/ SpanStep \/ FindAnchors \/ AnchorStep \/ FindBody \/ BodyStep \/ Finish

Spec == Init /\ [][Next]_vars

(***************************************************************************)
(* Vocabulary of the properties: the document as it was parsed, and where  *)
(* a node sits now.                                                        *)
(***************************************************************************)
Orig == html

OrigIds == 1..Len(Orig)

\* the node is below <body> in the tree as it is now
InBodyTree(n) ==
    SoupBody(soup) # 0 /\ n # SoupBody(soup) /\ InSubtree(soup, n, SoupBody(soup))

\* the node was below <body> in the parsed document
OrigInBody(n) ==
    SoupBody(Orig) # 0 /\ n # SoupBody(Orig) /\ InSubtree(Orig, n, SoupBody(Orig))

RECURSIVE TopOf(_, _)
\* the root of the (possibly detached) tree that holds the node
TopOf(s, n) == IF s[n].parent = 0 THEN n ELSE TopOf(s, s[n].parent)

OrigAnchor(n) == n \in OrigIds /\ Orig[n].name = "a"

OrigHref(n) == Get(Orig, n, "href")

\* the href carries a non-empty q destination
Resolves(n) == Truthy(OrigHref(n)) /\ ParseHref(OrigHref(n).v).t = "list"

\* the href is non-empty and carries no q destination
Unresolvable(n) == Truthy(OrigHref(n)) /\ ParseHref(OrigHref(n).v).t = "none"

SameDest(a, b) ==
    Resolves(a) /\ Resolves(b)
    /\ ValEq(ParseHref(OrigHref(a).v), ParseHref(OrigHref(b).v))

\* a then b are anchors of the body with no node between them
Adjacent(a, b) ==
    OrigAnchor(a) /\ OrigAnchor(b) /\ OrigInBody(a) /\ NextSibling(Orig, a) = b

OnBlacklist(n) == \E i \in 1..Len(tags_blacklist) : tags_blacklist[i] = n

OtherRules == {"remove_comments", "remove_inline_comment"} \cup
              {tokens[i][2] : i \in 1..Len(tokens)}

UnmappedSpan(n) ==
    /\ n \in OrigIds /\ Orig[n].name = "span"
    /\ \E i \in 1..Len(Classes(Orig, n)) :
          Selector(Classes(Orig, n)[i]) \notin DOMAIN stylesheet

\* C2 as claimed: when a span carries a class that has no stylesheet entry,
\* construction raises nothing, and once it is over the span is unwrapped (it is
\* no longer in the document) with its former children where it stood.
C2_MissingClassIsNoStyle ==
    \A n \in OrigIds :
        UnmappedSpan(n) =>
            /\ raised = ""
            /\ pc = "done" =>
                  /\ soup[n].parent = 0
                  /\ \A i \in 1..Len(Orig[n].contents) :
                        soup[Orig[n].contents[i]].parent # n

(***************************************************************************)
(* C3.  The attribute whitelist.                                           *)
(***************************************************************************)
Allowed(name) ==
    IF name = "a" THEN {"href"} ELSE IF name = "img" THEN {"src", "alt"} ELSE {}

\* C3: after construction every element of the body tree has only the attributes
\* its tag name allows: href on a, src and alt on img, none on any other tag.
C3_AttrWhitelist ==
    pc = "done" =>
        \A n \in DOMAIN soup :
            InBodyTree(n) /\ IsTag(soup, n) =>
                DOMAIN soup[n].attrs \subseteq Allowed(soup[n].name)

\* an img that came with onclick, a div that came with attributes and an anchor
\* that came with a class are all in the output
C3_Witness ==
    /\ pc = "done"
    /\ \E n \in OrigIds :
          /\ InBodyTree(n) /\ Orig[n].name = "img"
          /\ "onclick" \in DOMAIN Orig[n].attrs
          /\ DOMAIN soup[n].attrs = {"src", "alt"}
    /\ \E n \in OrigIds :
          /\ InBodyTree(n) /\ Orig[n].name = "div"
          /\ DOMAIN Orig[n].attrs # {} /\ DOMAIN soup[n].attrs = {}

(***************************************************************************)
(* C4.  Token rules.                                                       *)
(***************************************************************************)
ConsumedBy(target) == {n \in DOMAIN extracted_by : extracted_by[n] = target}

\* C4 as claimed: each token rule consumes at most one element (the elements that
\* match after the first one stay where they are).
C4_AtMostOnePerField ==
    \A i \in 1..Len(tokens) : Cardinality(ConsumedBy(tokens[i][2])) <= 1

(***************************************************************************)
(* C5.  Empty elements.                                                    *)
(***************************************************************************)
\* C5 as claimed: after construction no element of the body tree is a non-void
\* element with no child node.
C5_NoEmptyElement ==
    pc = "done" =>
        \A n \in DOMAIN soup :
            InBodyTree(n) /\ IsTag(soup, n) =>
                ~(Len(soup[n].contents) = 0 /\ soup[n].name \notin VoidTags)

(***************************************************************************)
(* C6.  Adjacent anchors with unresolvable hrefs.                          *)
(***************************************************************************)
\* C6 as claimed, for two hrefs that differ: two adjacent anchors whose hrefs are
\* non-empty and carry no q parameter are never merged: the second is never put
\* on the blacklist and the first keeps its text.
C6_UnresolvedNeverMerged ==
    \A a, b \in OrigIds :
        /\ Adjacent(a, b) /\ Unresolvable(a) /\ Unresolvable(b)
        /\ OrigHref(a) # OrigHref(b)
        =>
            /\ ~OnBlacklist(b)
            /\ soup[a].gone = 0 => TextOf(soup, a) = TextOf(Orig, a)

(***************************************************************************)
(* C7.  Spans are unwrapped, bold spans become strong.                     *)
(***************************************************************************)
BoldStyles(sel) ==
    /\ sel \in DOMAIN stylesheet
    /\ "font-weight" \in DOMAIN stylesheet[sel]
    /\ stylesheet[sel]["font-weight"] \in {"bold", "700"}

\* the classes of an original span that resolve to font-weight bold or 700
BoldClasses(sp) ==
    {i \in 1..Len(Classes(Orig, sp)) : BoldStyles(Selector(Classes(Orig, sp)[i]))}

RECURSIVE BoldAbove(_)
\* the bold classes of the spans that enclosed the node, up to the first non-span
BoldAbove(n) ==
    LET p == Orig[n].parent
    IN IF p = 0 \/ Orig[p].name # "span" THEN 0
       ELSE Cardinality(BoldClasses(p)) + BoldAbove(p)

RECURSIVE HomeOf(_)
\* the first non-span element that enclosed the node
HomeOf(n) ==
    LET p == Orig[n].parent
    IN IF p = 0 \/ Orig[p].name # "span" THEN p ELSE HomeOf(p)

RECURSIVE StrongsUpTo(_, _)
\* the strong elements between the node and `home`, -1 if anything else than
\* elements made by wrap() lies between them or the node is not below `home`
StrongsUpTo(n, home) ==
    LET p == soup[n].parent
    IN IF p = home THEN 0
       ELSE IF p = 0 \/ p \in OrigIds THEN -1
       ELSE LET up == StrongsUpTo(p, home)
            IN IF up = -1 THEN -1
               ELSE up + (IF soup[p].name = "strong" THEN 1 ELSE 0)

\* an original node that was the child of a span and is not a span itself
SpanChild(c) ==
    /\ c \in OrigIds /\ Orig[c].name # "span"
    /\ Orig[c].parent # 0 /\ Orig[Orig[c].parent].name = "span"

\* C7: after construction no span is left in the document, and what a span held
\* sits, where the span stood (below the element that enclosed the span, with
\* nothing but wrapper elements between), inside one strong element for each
\* class of its enclosing spans that resolves to font-weight bold or 700.
C7_SpansBecomeStrong ==
    pc = "done" =>
        /\ \A n \in DOMAIN soup : soup[n].name = "span" => ~InSubtree(soup, n, Root)
        /\ \A c \in OrigIds :
              SpanChild(c) /\ InSubtree(soup, c, Root) =>
                  StrongsUpTo(c, HomeOf(c)) = BoldAbove(c)

\* the content of a span with a bold class is in the output
C7_Witness ==
    /\ pc = "done"
    /\ \E c \in OrigIds :
          /\ SpanChild(c) /\ InBodyTree(c)
          /\ BoldClasses(Orig[c].parent) # {}
          /\ soup[soup[c].parent].name \in {"strong", "u"}

(***************************************************************************)
(* C8.  A run of three adjacent anchors.                                   *)
(***************************************************************************)
\* C8 as claimed, for the runs whose first anchor stays in the output: of three
\* adjacent anchors A, B, C with one non-empty destination only A remains after
\* construction, and its text is the original texts of A, B and C in order.
C8_RunOfThreeMerged ==
    pc = "done" =>
        \A a, b, c \in OrigIds :
            /\ Adjacent(a, b) /\ SameDest(a, b)
            /\ Adjacent(b, c) /\ SameDest(b, c)
            /\ InBodyTree(a)
            => /\ ~InBodyTree(b) /\ ~InBodyTree(c)
               /\ TextOf(soup, a) =
                     TextOf(Orig, a) \o TextOf(Orig, b) \o TextOf(Orig, c)

(***************************************************************************)
(* C9.  The blacklist.                                                     *)
(***************************************************************************)
\* C9 as claimed, for the anchors merged on a resolved destination: every such
\* anchor on the blacklist has been decomposed exactly once when construction is
\* over, and nothing is decomposed while anchors are still being put on the
\* blacklist.
C9_DecomposedExactlyOnce ==
    /\ pc = "done" =>
          \A i \in 1..Len(tags_blacklist) :
              Resolves(tags_blacklist[i]) => soup[tags_blacklist[i]].gone = 1
    /\ pc \in {"parse", "spans", "links"} =>
          \A n \in DOMAIN soup : soup[n].gone = 0

(***************************************************************************)
(* C10.  Redirect resolution applied twice.                                *)
(***************************************************************************)
\* C10 as claimed: resolving a destination that _parse_href returned gives that
\* same destination again, for every href parse_attrs has rewritten.
C10_ResolutionIdempotent ==
    \A n \in DOMAIN soup :
        /\ soup[n].name = "a"
        /\ "href" \in DOMAIN soup[n].attrs
        /\ soup[n].attrs["href"].t = "list"
        => \A i \in 1..Len(soup[n].attrs["href"].v) :
              ValEq(ParseHref(soup[n].attrs["href"].v[i]),
                    List(<<soup[n].attrs["href"].v[i]>>))

=============================================================================
